---- MODULE Spec2Model ----
(***************************************************************************)
(* Stock-Management: the validator (is_valid_data), the save handler's     *)
(* reconciliation of the edited table against the last search result, and  *)
(* the MongoDB persistence calls (add_products / add_articles,             *)
(* update_products / update_db) of app.py and functions/mongo_api.py.      *)
(*                                                                         *)
(* A pandas DataFrame is a record                                          *)
(*    [columns : set of column names,                                      *)
(*     dtypes  : column name -> dtype of the column,                       *)
(*     rows    : sequence of rows]                                         *)
(* and a row is a record with the four article fields plus `null`, the set *)
(* of its fields that hold a missing value (None / NaN / NaT).  A missing  *)
(* field carries the blank value of its column, so that a row has one      *)
(* representation.  A MongoDB document is a row; the collection is the     *)
(* sequence of its documents in natural order (no unique index on `code`   *)
(* is ever created by the program).                                        *)
(***************************************************************************)
EXTENDS Integers, Sequences, FiniteSets, TLC

VARIABLES
    collection,   \* the MongoDB collection: Seq of documents
    db_products,  \* st.session_state["db_products"]: the last search result
    filters,      \* the values of the three filter inputs of the search tab
    last          \* the output of the current script run: the call made, its
                  \* arguments and results ("idle" between two runs)

vars == <<collection, db_products, filters, last>>

(***************************************************************************)
(* Bounds of the model.                                                    *)
(***************************************************************************)
\* documents the collection may hold
MaxDocs == 3
\* lines of the text pasted into the add form
MaxLines == 3
\* rows of a frame handed to is_valid_data or to the reconciliation, and
\* rows of the edit grid once rows were added to it
MaxRows == 2

(***************************************************************************)
(* Schema (functions/constants.py DB_SCHEMA, app.py DB_COLS).              *)
(***************************************************************************)
\* the keys of DB_SCHEMA in dict (insertion) order
SchemaOrder == <<"code", "designation", "dlc", "quantite">>

\* DB_SCHEMA: column -> the dtype a column must have.  `int` is numpy's
\* default integer, int64.
DB_SCHEMA ==
    [code |-> "object", designation |-> "object",
     dlc |-> "datetime64[ns]", quantite |-> "int64"]

\* DB_SCHEMA: column -> the human-readable name of its type
SchemaLabel ==
    [code |-> "chaîne de caractères", designation |-> "chaîne de caractères",
     dlc |-> "date", quantite |-> "entier"]

CanonCols == DOMAIN DB_SCHEMA

(***************************************************************************)
(* Rows and frames.                                                        *)
(***************************************************************************)
\* the value a missing field carries, per column
Blank == [code |-> "", designation |-> "", dlc |-> 0, quantite |-> 0]

MkRow(c, d, e, q) ==
    [code |-> c, designation |-> d, dlc |-> e, quantite |-> q, null |-> {}]

\* the row with field k missing
SetNull(r, k) == [r EXCEPT ![k] = Blank[k], !.null = @ \cup {k}]

\* the row with field k set to v
SetField(r, k, v) == [r EXCEPT ![k] = v, !.null = @ \ {k}]

IsNull(r, k) == k \in r.null

\* pandas compares missing values as unequal to everything, themselves
\* included (vec_compare), when comparing element-wise
CellEq(r1, r2, k) == ~IsNull(r1, k) /\ ~IsNull(r2, k) /\ r1[k] = r2[k]

\* the key under which pandas hashes a code: missing codes are one key
CodeKey(r) == <<r.code, IsNull(r, "code")>>

MkFrame(cols, dts, rs) == [columns |-> cols, dtypes |-> dts, rows |-> rs]

\* pd.DataFrame(columns=DB_SCHEMA.keys()): no row, every column of dtype object
EmptyFrame == MkFrame(CanonCols, [k \in CanonCols |-> "object"], <<>>)

\* all sequences over S of length at most n
SeqUpTo(S, n) == UNION {[1..m -> S] : m \in 0..n}

Range(s) == {s[i] : i \in DOMAIN s}

\* the subsequence of s at the positions satisfying Keep
RECURSIVE SelectIdx(_, _, _)
SelectIdx(s, keep, i) ==
    IF i > Len(s) THEN <<>>
    ELSE (IF i \in keep THEN <<s[i]>> ELSE <<>>) \o SelectIdx(s, keep, i + 1)

(***************************************************************************)
(* is_valid_data (functions/utils.py, and its copy in app.py).             *)
(***************************************************************************)
ErrColumns ==
    "Erreur: Les colonnes ne sont pas valides. Veuillez vérifier les colonnes suivantes: code, designation, dlc, quantite."

ErrType(k) ==
    "Erreur: La colonne " \o k \o " doit être de type " \o SchemaLabel[k] \o "."

ErrQuantite ==
    "Erreur: La colonne 'quantite' doit être supérieure ou égale à zéro."

ErrUnique == "Erreur: Les codes d'articles doivent être uniques."

ErrNull ==
    "Erreur: Les données ne doivent pas contenir de valeurs manquantes."

\* df_data["code"].is_unique
is_unique(rs) ==
    \A i, j \in DOMAIN rs : i # j => CodeKey(rs[i]) # CodeKey(rs[j])

\* the first column, in DB_SCHEMA order, whose dtype is not the expected one
\* (0: none)
FirstBadType(df) ==
    LET bad == {i \in DOMAIN SchemaOrder :
                    df.dtypes[SchemaOrder[i]] # DB_SCHEMA[SchemaOrder[i]]}
    IN  IF bad = {} THEN 0 ELSE CHOOSE i \in bad : \A j \in bad : i <= j

\* variants of is_valid_data with one check removed or moved
is_valid_data_no_quantity(df) ==
    IF df.columns # CanonCols THEN ErrColumns
    ELSE IF FirstBadType(df) # 0 THEN ErrType(SchemaOrder[FirstBadType(df)])
    ELSE IF ~is_unique(df.rows) THEN ErrUnique
    ELSE IF \E i \in DOMAIN df.rows : df.rows[i].null # {} THEN ErrNull
    ELSE ""

is_valid_data_unique_first(df) ==
    IF df.columns # CanonCols THEN ErrColumns
    ELSE IF FirstBadType(df) # 0 THEN ErrType(SchemaOrder[FirstBadType(df)])
    ELSE IF ~is_unique(df.rows) THEN ErrUnique
    ELSE IF ~(\A i \in DOMAIN df.rows :
                ~IsNull(df.rows[i], "quantite") /\ df.rows[i].quantite >= 0)
         THEN ErrQuantite
    ELSE IF \E i \in DOMAIN df.rows : df.rows[i].null # {} THEN ErrNull
    ELSE ""

is_valid_data_no_null(df) ==
    IF df.columns # CanonCols THEN ErrColumns
    ELSE IF FirstBadType(df) # 0 THEN ErrType(SchemaOrder[FirstBadType(df)])
    ELSE IF ~(\A i \in DOMAIN df.rows :
                ~IsNull(df.rows[i], "quantite") /\ df.rows[i].quantite >= 0)
         THEN ErrQuantite
    ELSE IF ~is_unique(df.rows) THEN ErrUnique
    ELSE ""

is_valid_data_no_unique(df) ==
    IF df.columns # CanonCols THEN ErrColumns
    ELSE IF FirstBadType(df) # 0 THEN ErrType(SchemaOrder[FirstBadType(df)])
    ELSE IF ~(\A i \in DOMAIN df.rows :
                ~IsNull(df.rows[i], "quantite") /\ df.rows[i].quantite >= 0)
         THEN ErrQuantite
    ELSE IF \E i \in DOMAIN df.rows : df.rows[i].null # {} THEN ErrNull
    ELSE ""

is_valid_data_null_first(df) ==
    IF df.columns # CanonCols THEN ErrColumns
    ELSE IF FirstBadType(df) # 0 THEN ErrType(SchemaOrder[FirstBadType(df)])
    ELSE IF \E i \in DOMAIN df.rows : df.rows[i].null # {} THEN ErrNull
    ELSE IF ~(\A i \in DOMAIN df.rows :
                ~IsNull(df.rows[i], "quantite") /\ df.rows[i].quantite >= 0)
         THEN ErrQuantite
    ELSE IF ~is_unique(df.rows) THEN ErrUnique
    ELSE ""

\* is_valid_data: "" when the data is valid, else the message of the first
\* failing check.  A comparison `NaN >= 0` is False.
is_valid_data(df) ==
    IF df.columns # CanonCols THEN ErrColumns
    ELSE IF FirstBadType(df) # 0 THEN ErrType(SchemaOrder[FirstBadType(df)])
    ELSE IF ~(\A i \in DOMAIN df.rows :
                ~IsNull(df.rows[i], "quantite") /\ df.rows[i].quantite >= 0)
         THEN ErrQuantite
    ELSE IF ~is_unique(df.rows) THEN ErrUnique
    ELSE IF \E i \in DOMAIN df.rows : df.rows[i].null # {} THEN ErrNull
    ELSE ""

(***************************************************************************)
(* The validator as a pure function: SpecValid draws a frame and applies   *)
(* is_valid_data to it.                                                    *)
(***************************************************************************)
\* column sets: the canonical one, one column missing, one column too many
ColumnSets ==
    {CanonCols} \cup {CanonCols \ {k} : k \in CanonCols}
                \cup {CanonCols \cup {"extra"}}

\* a dtype other than the expected one, per column
AltDType ==
    [code |-> "int64", designation |-> "float64",
     dlc |-> "object", quantite |-> "float64"]

DTypeChoices ==
    {dt \in [CanonCols -> {"object", "datetime64[ns]", "int64", "float64"}] :
        \A k \in CanonCols : dt[k] \in {DB_SCHEMA[k], AltDType[k]}}

\* the cells of the rows drawn: two codes, a negative, a positive and a
\* missing quantity, a missing code, a missing designation
InputCodes == {"001", "002"}
InputQuantities == {-1, 5}

InputRows ==
    LET full == {MkRow(c, "Widget", 20250315, q) :
                    c \in InputCodes, q \in InputQuantities}
        noCode == {SetNull(r, "code") : r \in full}
        noName == {SetNull(r, "designation") : r \in full \cup noCode}
        noQty  == {SetNull(r, "quantite") : r \in full \cup noCode \cup noName}
    IN  full \cup noCode \cup noName \cup noQty

\* an integer column holds no missing value (pandas stores NaN in a float
\* or object column only)
WellFormed(df) ==
    \A k \in CanonCols : df.dtypes[k] = "int64" =>
        \A i \in DOMAIN df.rows : ~IsNull(df.rows[i], k)

InitValid ==
    /\ collection = <<>>
    /\ db_products = EmptyFrame
    /\ filters = [code |-> "", name |-> "", dlc |-> 20250301]
    /\ \E cs \in ColumnSets, dt \in DTypeChoices,
          rs \in SeqUpTo(InputRows, MaxRows) :
        /\ WellFormed(MkFrame(cs, dt, rs))
        /\ last = [op |-> "input", df_data |-> MkFrame(cs, dt, rs)]

CallIsValidData ==
    /\ last.op = "input"
    /\ last' = [op |-> "is_valid_data", df_data |-> last.df_data,
                error |-> is_valid_data(last.df_data)]
    /\ UNCHANGED <<collection, db_products, filters>>

NextValid == CallIsValidData

SpecValid == InitValid /\ [][NextValid]_vars

(***************************************************************************)
(* Dates are calendar days written yyyymmdd (20250315).                    *)
(***************************************************************************)
Year(d) == d \div 10000
Month(d) == (d \div 100) % 100
Day(d) == d % 100
MkDate(y, m, d) == y * 10000 + m * 100 + d

IsLeap(y) == (y % 4 = 0 /\ y % 100 # 0) \/ y % 400 = 0

DaysInMonth(y, m) ==
    IF m = 2 THEN (IF IsLeap(y) THEN 29 ELSE 28)
    ELSE IF m \in {4, 6, 9, 11} THEN 30 ELSE 31

\* get_month_end: dlc + pd.offsets.MonthEnd(1).  The offset rolls a date
\* forward to the next month end: a date that is not a month end goes to the
\* end of its month, a date that is one goes to the end of the next month.
get_month_end(dlc) ==
    LET y == Year(dlc)
        m == Month(dlc)
    IN  IF Day(dlc) < DaysInMonth(y, m) THEN MkDate(y, m, DaysInMonth(y, m))
        ELSE IF m = 12 THEN MkDate(y + 1, 1, 31)
        ELSE MkDate(y, m + 1, DaysInMonth(y, m + 1))

(***************************************************************************)
(* search_product (app.py) / search_products (mongo_api.py).               *)
(***************************************************************************)
\* the characters of the strings the model uses
Chars(str) ==
    CASE str = "" -> <<>>
      [] str = "00" -> <<"0", "0">>
      [] str = "001" -> <<"0", "0", "1">>
      [] str = "002" -> <<"0", "0", "2">>
      [] str = "003" -> <<"0", "0", "3">>
      [] str = "Widget" -> <<"W", "i", "d", "g", "e", "t">>
      [] str = "Gadget" -> <<"G", "a", "d", "g", "e", "t">>
      [] str = "gadget" -> <<"g", "a", "d", "g", "e", "t">>
      [] str = "nan" -> <<"n", "a", "n">>
      [] str = "0.1" -> <<"0", ".", "1">>
      [] str = "0.2" -> <<"0", ".", "2">>
      [] str = "(" -> <<"(">>
      [] str = "*" -> <<"*">>

\* case folding of one character ("$options": "i")
Fold(c) == CASE c = "W" -> "w" [] c = "G" -> "g" [] OTHER -> c

FoldAll(cs) == [i \in DOMAIN cs |-> Fold(cs[i])]

\* {"$regex": pattern, "$options": "i"}: the pattern is a regular expression
\* that has to match somewhere in the text, ignoring case; a letter or digit
\* stands for itself and "." for any one character
ContainsSeq(t, p) ==
    \E o \in 0..(Len(t) - Len(p)) :
        \A i \in 1..Len(p) : p[i] = "." \/ t[o + i] = p[i]

\* the pattern is a well-formed regular expression: an opening parenthesis
\* is never closed (the patterns hold no ")"), and a leading "*" has nothing
\* to repeat; the server refuses the query for such a pattern and find raises
RegexCompiles(pattern) ==
    LET cs == Chars(pattern)
    IN  /\ \A i \in DOMAIN cs : cs[i] # "("
        /\ cs = <<>> \/ cs[1] # "*"

RegexSearch(pattern, text) ==
    \E p \in {FoldAll(Chars(pattern))}, t \in {FoldAll(Chars(text))} :
        ContainsSeq(t, p)

\* the filter_dict of the query
MatchesFilter(doc, item_code, item_name, dlc) ==
    /\ ~IsNull(doc, "code") /\ RegexSearch(item_code, doc.code)
    /\ ~IsNull(doc, "designation") /\ RegexSearch(item_name, doc.designation)
    /\ ~IsNull(doc, "dlc")
    /\ doc.dlc >= dlc
    /\ doc.dlc <= get_month_end(dlc)

\* insert row r into the sorted sequence s, after the rows with the same dlc
RECURSIVE InsertByDlc(_, _)
InsertByDlc(s, r) ==
    IF s = <<>> THEN <<r>>
    ELSE IF r.dlc < Head(s).dlc THEN <<r>> \o s
    ELSE <<Head(s)>> \o InsertByDlc(Tail(s), r)

\* filtered_db.sort_values("dlc"): rows with equal dlc keep their order
RECURSIVE SortByDlc(_)
SortByDlc(s) ==
    IF s = <<>> THEN <<>>
    ELSE InsertByDlc(SortByDlc(SubSeq(s, 1, Len(s) - 1)), s[Len(s)])

search_product(coll, item_code, item_name, dlc) ==
    LET hits == SelectIdx(coll,
                    {i \in DOMAIN coll :
                        MatchesFilter(coll[i], item_code, item_name, dlc)}, 1)
    IN  IF hits = <<>> THEN EmptyFrame
        ELSE MkFrame(CanonCols, DB_SCHEMA, SortByDlc(hits))

(***************************************************************************)
(* The save handler's reconciliation (app.py, `if st.button("Sauvegarder`). *)
(***************************************************************************)
NonCodeCols == CanonCols \ {"code"}

CodeKeys(rs) == [i \in DOMAIN rs |-> CodeKey(rs[i])]

NoDuplicateKeys(rs) ==
    \A i, j \in DOMAIN rs : i # j => CodeKey(rs[i]) # CodeKey(rs[j])

\* variant: the rows are compared by position instead of by code
DeletedRowsByPosition(db_filtered, db_edited) ==
    MkFrame(db_filtered.columns, db_filtered.dtypes,
        SelectIdx(db_filtered.rows,
            {i \in DOMAIN db_filtered.rows :
                i > Len(db_edited.rows)
                \/ CodeKey(db_edited.rows[i]) # CodeKey(db_filtered.rows[i])},
            1))

\* deleted_rows = db_filtered[~db_filtered["code"].isin(db_edited["code"])]
DeletedRowsOf(db_filtered, db_edited) ==
    MkFrame(db_filtered.columns, db_filtered.dtypes,
        SelectIdx(db_filtered.rows,
            {i \in DOMAIN db_filtered.rows :
                \A j \in DOMAIN db_edited.rows :
                    CodeKey(db_edited.rows[j]) # CodeKey(db_filtered.rows[i])},
            1))

\* A_common = db_filtered[db_filtered["code"].isin(db_edited["code"])]
CommonRows(db_filtered, db_edited) ==
    SelectIdx(db_filtered.rows,
        {i \in DOMAIN db_filtered.rows :
            \E j \in DOMAIN db_edited.rows :
                CodeKey(db_edited.rows[j]) = CodeKey(db_filtered.rows[i])},
        1)

\* one row of B_common.eq(A_common).all(axis=1): every non-code cell equal
RowEq(b, a) == \A k \in NonCodeCols : CellEq(b, a, k)

\* all sub-sequences of s (rows taken by position, order kept)
SubSeqs(s) == {SelectIdx(s, keep, 1) : keep \in SUBSET (DOMAIN s)}

\* modified_rows = B_common[~B_common.eq(A_common).all(axis=1)].reset_index()
\* The possible outcomes, each [raised, frame]:
\*  - A_common and B_common carry the same index (same codes in the same
\*    order): DataFrame.eq compares row by row.
\*  - else DataFrame.eq aligns the two frames on the union of their indexes;
\*    a row of B_common whose code is not in A_common is compared with a row
\*    of missing values, so it compares unequal and is selected.
\*  - else (the indexes differ and one holds a code twice) the alignment
\*    multiplies the rows of a repeated code and the boolean selection takes
\*    rows by position in the multiplied mask: the result is some selection
\*    of rows of B_common, or an exception.
ModifiedRowsOf(db_filtered, db_edited) ==
    LET A == CommonRows(db_filtered, db_edited)
        B == db_edited.rows
        got(rs) == [raised |-> FALSE,
                    frame |-> MkFrame(db_edited.columns, db_edited.dtypes, rs)]
    IN  IF CodeKeys(A) = CodeKeys(B)
        THEN {got(SelectIdx(B, {i \in DOMAIN B : ~RowEq(B[i], A[i])}, 1))}
        ELSE IF NoDuplicateKeys(A) /\ NoDuplicateKeys(B)
        THEN {got(SelectIdx(B,
                {i \in DOMAIN B :
                    \A j \in DOMAIN A :
                        CodeKey(A[j]) = CodeKey(B[i]) => ~RowEq(B[i], A[j])},
                1))}
        ELSE {[raised |-> TRUE, frame |-> EmptyFrame]}
                \cup {got(rs) : rs \in SubSeqs(B)}

(***************************************************************************)
(* The MongoDB calls.                                                      *)
(***************************************************************************)
\* the position of the first document with the given code (0: none)
FirstWithCode(coll, code) ==
    LET hits == {i \in DOMAIN coll :
                    ~IsNull(coll[i], "code") /\ coll[i].code = code}
    IN  IF hits = {} THEN 0 ELSE CHOOSE i \in hits : \A j \in hits : i <= j

\* collection.update_one({"code": row["code"]}, {"$set": row}), upsert off:
\* the first document with that code takes the four fields of the row; no
\* document is touched when none has the code
update_one_upsert(coll, row) ==
    LET i == FirstWithCode(coll, row.code)
    IN  IF i = 0 THEN Append(coll, row) ELSE [coll EXCEPT ![i] = row]

\* variant: the filter of the call is empty, the first document of the
\* collection takes the four fields of the row whatever its code
update_one_no_filter(coll, row) ==
    IF coll = <<>> THEN coll ELSE [coll EXCEPT ![1] = row]

update_one(coll, row) ==
    LET i == FirstWithCode(coll, row.code)
    IN  IF i = 0 THEN coll ELSE [coll EXCEPT ![i] = row]

\* collection.delete_one({"code": code}): the first document with that code
\* is removed
delete_one(coll, code) ==
    LET i == FirstWithCode(coll, code)
    IN  IF i = 0 THEN coll
        ELSE SubSeq(coll, 1, i - 1) \o SubSeq(coll, i + 1, Len(coll))

\* the calls a save issues, in order: one update_one per modified row, then
\* one delete_one per deleted row
SaveCalls(modified_rows, deleted_rows) ==
    [i \in 1..Len(modified_rows.rows) |->
        [call |-> "update_one", row |-> modified_rows.rows[i]]]
    \o [i \in 1..Len(deleted_rows.rows) |->
        [call |-> "delete_one", row |-> deleted_rows.rows[i]]]

ApplyCall(coll, c) ==
    IF c.call = "update_one" THEN update_one(coll, c.row)
    ELSE delete_one(coll, c.row.code)

\* the collection after the first n calls
RECURSIVE ApplyCalls(_, _, _)
ApplyCalls(coll, calls, n) ==
    IF n = 0 THEN coll
    ELSE ApplyCall(ApplyCalls(coll, calls, n - 1), calls[n])

ErrUpdate == "Erreur: Impossible de mettre à jour la base de données."

\* the try block of update_products once the data passed validation: the
\* calls are issued in order; `done` of them complete, the next one raises
\* (the connection is lost); reading deleted_rows["code"] raises when the
\* frame has no such column, after every update was issued
IssueCalls(coll, modified_rows, deleted_rows, done) ==
    LET calls == IF "code" \in deleted_rows.columns
                 THEN SaveCalls(modified_rows, deleted_rows)
                 ELSE SaveCalls(modified_rows, EmptyFrame)
        n == IF done < Len(calls) THEN done ELSE Len(calls)
    IN  [collection |-> ApplyCalls(coll, calls, n),
         error |-> IF n < Len(calls) \/ "code" \notin deleted_rows.columns
                   THEN ErrUpdate ELSE "",
         done |-> n]

\* variant: the validation result is looked at after the calls were issued
update_products_late_check(coll, modified_rows, deleted_rows, done) ==
    IF is_valid_data(modified_rows) # ""
    THEN [IssueCalls(coll, modified_rows, deleted_rows,
                     Len(modified_rows.rows) + Len(deleted_rows.rows))
            EXCEPT !.error = is_valid_data(modified_rows)]
    ELSE IssueCalls(coll, modified_rows, deleted_rows, done)

\* update_products / update_db: returns the collection, the message returned
\* and the number of calls completed
update_products(coll, modified_rows, deleted_rows, done) ==
    IF is_valid_data(modified_rows) # ""
    THEN [collection |-> coll, error |-> is_valid_data(modified_rows),
          done |-> 0]
    ELSE IssueCalls(coll, modified_rows, deleted_rows, done)

(***************************************************************************)
(* add_products (mongo_api.py) / add_articles (app.py).  The text is a     *)
(* sequence of lines, a line the four comma-separated fields as typed; an  *)
(* empty field is read as a missing value (pd.read_csv, dtype=str).        *)
(***************************************************************************)
MkLine(c, d, e, q) == [code |-> c, designation |-> d, dlc |-> e, quantite |-> q]

\* astype("datetime64[ns]") of one field: the date, 0 for a missing value
\* (NaT), -1 when the text is no date (astype raises)
ParseDate(tok) ==
    CASE tok = "" -> 0
      [] tok = "2025-03-15" -> 20250315
      [] tok = "2025-03-31" -> 20250331
      [] tok = "2025-04-01" -> 20250401
      [] OTHER -> -1

\* astype(int) of one field: [ok, value]; a missing value and a text that
\* is no integer make astype raise
ParseInt(tok) ==
    CASE tok = "10" -> [ok |-> TRUE, value |-> 10]
      [] tok = "5" -> [ok |-> TRUE, value |-> 5]
      [] tok = "0" -> [ok |-> TRUE, value |-> 0]
      [] tok = "-1" -> [ok |-> TRUE, value |-> -1]
      [] OTHER -> [ok |-> FALSE, value |-> 0]

\* typecast_data raises on this line
CastRaises(line) == ParseDate(line.dlc) = -1 \/ ~ParseInt(line.quantite).ok

\* one line of text as a typed row
CastLine(line) ==
    [code |-> line.code,
     designation |-> line.designation,
     dlc |-> ParseDate(line.dlc),
     quantite |-> ParseInt(line.quantite).value,
     null |-> {k \in {"code", "designation", "dlc"} : line[k] = ""}]

\* typecast_data(pd.read_csv(...)) when it does not raise
typecast_data(text) ==
    MkFrame(CanonCols, DB_SCHEMA, [i \in DOMAIN text |-> CastLine(text[i])])

ErrEmpty == "Veuillez saisir au moins un article à ajouter."

ErrMalformed ==
    "Les données saisies ne sont pas valides. Veuillez vérifier les points suivants: ..."

\* variant: the rows that parse are inserted before the batch is validated
add_products_insert_first(coll, text, inserted, raises) ==
    IF text = <<>>
    THEN [collection |-> coll, returned |-> FALSE, rows |-> <<>>,
          error |-> ErrEmpty]
    ELSE IF \E i \in DOMAIN text : CastRaises(text[i])
    THEN [collection |-> coll, returned |-> FALSE, rows |-> <<>>,
          error |-> ErrMalformed]
    ELSE IF is_valid_data(typecast_data(text)) # ""
    THEN [collection |-> coll \o typecast_data(text).rows,
          returned |-> FALSE, rows |-> <<>>, error |-> ErrMalformed]
    ELSE [collection |-> coll \o typecast_data(text).rows,
          returned |-> TRUE, rows |-> typecast_data(text).rows, error |-> ""]

\* add_products / add_articles.  `inserted` is the number of documents of the
\* batch the server stores: all of them when insert_many returns, fewer or
\* all when it raises.  Returns the collection, new_articles (the rows, <<>>
\* for None), whether rows are returned, and the message.
add_products(coll, text, inserted, raises) ==
    IF text = <<>>
    THEN [collection |-> coll, returned |-> FALSE, rows |-> <<>>,
          error |-> ErrEmpty]
    ELSE IF \E i \in DOMAIN text : CastRaises(text[i])
    THEN [collection |-> coll, returned |-> FALSE, rows |-> <<>>,
          error |-> ErrMalformed]
    ELSE IF is_valid_data(typecast_data(text)) # ""
    THEN [collection |-> coll, returned |-> FALSE, rows |-> <<>>,
          error |-> ErrMalformed]
    ELSE IF raises
    THEN [collection |-> coll \o SubSeq(typecast_data(text).rows, 1, inserted),
          returned |-> FALSE, rows |-> <<>>, error |-> ErrMalformed]
    ELSE [collection |-> coll \o typecast_data(text).rows,
          returned |-> TRUE, rows |-> typecast_data(text).rows, error |-> ""]

(***************************************************************************)
(* The application: one action per run of the script.  Every run first     *)
(* searches with the current filters and stores the result in              *)
(* st.session_state["db_products"]; then the handler of the button pressed *)
(* runs.                                                                   *)
(***************************************************************************)
\* the filters a user types: code, designation, reference date
SearchFilters ==
    {[code |-> "", name |-> "", dlc |-> 20250301],
     [code |-> "001", name |-> "", dlc |-> 20250301],
     [code |-> "00", name |-> "gadget", dlc |-> 20250331]}

\* the filters of a fresh session: empty texts, the first day of the month
InitFilters == [code |-> "", name |-> "", dlc |-> 20250301]

Search(f) == search_product(collection, f.code, f.name, f.dlc)

\* the lines a user pastes: well-formed articles, a line with a negative
\* quantity, a line whose date is no date
AddLines ==
    {MkLine("001", "Widget", "2025-03-15", "10"),
     MkLine("002", "Gadget", "2025-03-31", "5"),
     MkLine("002", "Widget", "2025-03-15", "-1"),
     MkLine("", "Gadget", "15 mars", "5")}

AddTexts == SeqUpTo(AddLines, MaxLines)

\* how insert_many may end for a batch of n documents: it returns (all n
\* stored), or it raises with any number of them stored
InsertOutcomes(text) ==
    IF text # <<>> /\ (\A i \in DOMAIN text : ~CastRaises(text[i]))
                   /\ is_valid_data(typecast_data(text)) = ""
    THEN {[inserted |-> Len(text), raises |-> FALSE]}
            \cup {[inserted |-> n, raises |-> TRUE] : n \in 0..Len(text)}
    ELSE {[inserted |-> 0, raises |-> FALSE]}

\* what a user can do to one displayed row in the edit grid: leave it,
\* delete it, or change its quantity (the code column is disabled)
GridChoices == {"keep", "delete", "zero", "negative"}

EditRow(r, choice) ==
    CASE choice = "zero" -> SetField(r, "quantite", 0)
      [] choice = "negative" -> SetField(r, "quantite", -1)
      [] OTHER -> r

\* the displayed rows after the user deleted some and edited others
EditedRows(rs, choices) ==
    SelectIdx([i \in DOMAIN rs |-> EditRow(rs[i], choices[i])],
              {i \in DOMAIN rs : choices[i] # "delete"}, 1)

\* how many rows a user adds at the end of the grid: none, or as many as
\* keep the grid within MaxRows rows
AddedCounts(original, choices) ==
    {n \in 0..MaxRows :
        n = 0 \/ n + Cardinality({i \in DOMAIN original.rows :
                                    choices[i] # "delete"}) <= MaxRows}

\* the row a user can add in the grid: the code cannot be typed
AddedRow == SetNull(MkRow("", "Gadget", 20250331, 5), "code")

\* the dtypes of the edited table: adding a row may or may not keep the
\* integer dtype of the quantity column
EditedDTypes(original, nadded) ==
    IF original.dtypes["quantite"] = "int64" /\ nadded > 0
    THEN {original.dtypes, [original.dtypes EXCEPT !["quantite"] = "float64"]}
    ELSE {original.dtypes}

\* the table st.data_editor returns for the displayed table: rows deleted,
\* rows edited in place, nadded rows added at the end
EditedTable(original, choices, nadded, dtypes) ==
    MkFrame(original.columns, dtypes,
            EditedRows(original.rows, choices) \o [i \in 1..nadded |-> AddedRow])

\* how many calls of a save the server completes: all of them, or fewer when
\* the next one raises; none is issued for invalid data
DoneChoices(modified_rows, deleted_rows) ==
    IF is_valid_data(modified_rows) # "" THEN {0}
    ELSE 0..(Len(modified_rows.rows) + Len(deleted_rows.rows))

Init ==
    /\ collection = <<>>
    /\ db_products = EmptyFrame
    /\ filters = InitFilters
    /\ last = [op |-> "idle"]

\* the page is idle: the script run that produced `last` is over and its
\* output is no longer shown once the next run starts
Idle == last.op = "idle"

\* Streamlit reruns the script from the top on the next interaction (and
\* after a successful save): the messages and tables of the previous run
\* are cleared and the search is executed again
Rerun ==
    /\ ~Idle
    /\ db_products' = Search(filters)
    /\ last' = [op |-> "idle"]
    /\ UNCHANGED <<collection, filters>>

\* a run without a button pressed: a filter changed
RunSearch ==
    /\ Idle
    /\ \E f \in SearchFilters :
        /\ filters' = f
        /\ db_products' = Search(f)
        /\ last' = [op |-> "search"]
        /\ UNCHANGED collection

\* "Enregistrer les articles" pressed
RunAdd ==
    /\ Idle
    /\ \E text \in AddTexts :
       \E o \in InsertOutcomes(text) :
       \E r \in {add_products(collection, text, o.inserted, o.raises)} :
           /\ Len(collection) + Len(text) <= MaxDocs
           /\ collection' = r.collection
           /\ last' = [op |-> "add", text |-> text,
                       returned |-> r.returned, rows |-> r.rows,
                       error |-> r.error]
           /\ db_products' = Search(filters)
           /\ UNCHANGED filters

\* "Sauvegarder les modifications" pressed
RunSave ==
    /\ Idle
    /\ \E db_filtered \in {Search(filters)} :
       \E choices \in [DOMAIN db_filtered.rows -> GridChoices] :
       \E nadded \in AddedCounts(db_filtered, choices) :
       \E dtypes \in EditedDTypes(db_filtered, nadded) :
       \E db_edited \in {EditedTable(db_filtered, choices, nadded, dtypes)} :
       \E deleted_rows \in {DeletedRowsOf(db_filtered, db_edited)} :
       \E m \in ModifiedRowsOf(db_filtered, db_edited) :
       \E done \in DoneChoices(m.frame, deleted_rows) :
       \E r \in {update_products(collection, m.frame, deleted_rows, done)} :
           /\ db_products' = db_filtered
           /\ collection' = IF m.raised THEN collection ELSE r.collection
           /\ last' = IF m.raised
                      THEN [op |-> "save_raised"]
                      ELSE [op |-> "save", caller |-> "handler",
                            modified_rows |-> m.frame,
                            deleted_rows |-> deleted_rows,
                            error |-> r.error, done |-> r.done]
           /\ UNCHANGED filters

\* update_products called with frames of the caller's own: rows whose code
\* may not be stored, a deleted_rows frame that may lack the code column
UpdateFrames ==
    {MkFrame(CanonCols, DB_SCHEMA, rs) :
        rs \in {<<>>,
                <<MkRow("003", "Widget", 20250315, 10)>>,
                <<MkRow("001", "Widget", 20250315, 0),
                  MkRow("003", "Widget", 20250315, 10)>>}}

DeleteFrames ==
    {MkFrame(CanonCols, DB_SCHEMA, <<>>),
     MkFrame(CanonCols, DB_SCHEMA, <<MkRow("003", "Widget", 20250315, 10)>>),
     MkFrame(CanonCols, DB_SCHEMA, <<MkRow("001", "Widget", 20250315, 10)>>),
     MkFrame(CanonCols \ {"code"}, DB_SCHEMA, <<>>)}

CallUpdateProducts ==
    /\ Idle
    /\ \E modified_rows \in UpdateFrames, deleted_rows \in DeleteFrames :
       \E done \in DoneChoices(modified_rows, deleted_rows) :
       \E r \in {update_products(collection, modified_rows, deleted_rows, done)} :
           /\ collection' = r.collection
           /\ last' = [op |-> "save", caller |-> "direct",
                       modified_rows |-> modified_rows,
                       deleted_rows |-> deleted_rows,
                       error |-> r.error, done |-> r.done]
           /\ UNCHANGED <<db_products, filters>>

Next == Rerun \/ RunSearch \/ RunAdd \/ RunSave \/ CallUpdateProducts

Spec == Init /\ [][Next]_vars

(***************************************************************************)
(* What a valid row set is, stated on the data and not on the checks.      *)
(***************************************************************************)
HasCanonicalColumns(df) ==
    df.columns = {"code", "designation", "dlc", "quantite"}

HasExpectedTypes(df) ==
    /\ df.dtypes["code"] = "object"
    /\ df.dtypes["designation"] = "object"
    /\ df.dtypes["dlc"] = "datetime64[ns]"
    /\ df.dtypes["quantite"] = "int64"

HasNegativeQuantity(df) ==
    \E i \in DOMAIN df.rows :
        ~IsNull(df.rows[i], "quantite") /\ df.rows[i].quantite < 0

\* two rows hold the same (present) code
SharesCode(df) ==
    \E i, j \in DOMAIN df.rows :
        /\ i < j
        /\ ~IsNull(df.rows[i], "code")
        /\ ~IsNull(df.rows[j], "code")
        /\ df.rows[i].code = df.rows[j].code

HasMissingValue(df) ==
    \E i \in DOMAIN df.rows : \E k \in CanonCols : IsNull(df.rows[i], k)

ValidatorRan == last.op = "is_valid_data"

\* C3: is_valid_data returns "" exactly for the row sets with the four
\* canonical columns, the expected dtype in every column, no negative
\* quantity, pairwise distinct codes and no missing value; for every other
\* row set it returns one of its non-empty error messages.
Thm_C3_ValidExactly ==
    ValidatorRan =>
        LET df == last.df_data
            ok == /\ HasCanonicalColumns(df)
                  /\ HasExpectedTypes(df)
                  /\ ~HasNegativeQuantity(df)
                  /\ ~SharesCode(df)
                  /\ ~HasMissingValue(df)
        IN  /\ (last.error = "") <=> ok
            /\ ~ok => last.error \in
                    {ErrColumns, ErrQuantite, ErrUnique, ErrNull}
                        \cup {ErrType(k) : k \in CanonCols}

\* a valid row set with two rows was accepted
Wit_C3_ValidAccepted ==
    /\ ValidatorRan
    /\ last.error = ""
    /\ Len(last.df_data.rows) = 2

\* the checks in the order the claim gives them, each with its message and
\* with what violates it
CheckMessages ==
    <<ErrColumns, ErrType("code"), ErrType("designation"), ErrType("dlc"),
      ErrType("quantite"), ErrQuantite, ErrUnique, ErrNull>>

ViolatedChecks(df) ==
    (IF ~HasCanonicalColumns(df) THEN {1} ELSE {})
    \cup (IF df.dtypes["code"] # "object" THEN {2} ELSE {})
    \cup (IF df.dtypes["designation"] # "object" THEN {3} ELSE {})
    \cup (IF df.dtypes["dlc"] # "datetime64[ns]" THEN {4} ELSE {})
    \cup (IF df.dtypes["quantite"] # "int64" THEN {5} ELSE {})
    \cup (IF HasNegativeQuantity(df) THEN {6} ELSE {})
    \cup (IF Cardinality({CodeKey(df.rows[i]) : i \in DOMAIN df.rows})
                < Len(df.rows) THEN {7} ELSE {})
    \cup (IF HasMissingValue(df) THEN {8} ELSE {})

\* C4: the five checks are applied in the order column set, dtype of code,
\* designation, dlc, quantite, quantity >= 0, code uniqueness, missing
\* values, and the message returned is that of the earliest violated check
\* whatever later checks are violated too.
Thm_C4_FirstFailingCheck ==
    ValidatorRan =>
        LET v == ViolatedChecks(last.df_data)
        IN  last.error =
                IF v = {} THEN ""
                ELSE CheckMessages[CHOOSE i \in v : \A j \in v : i <= j]

\* a row set violating the quantity, the uniqueness and the missing-value
\* checks got the quantity message
Wit_C4_SeveralViolations ==
    /\ ValidatorRan
    /\ ViolatedChecks(last.df_data) = {6, 7, 8}
    /\ last.error = ErrQuantite

\* C5 as stated: every row set with a negative quantity gets the quantity
\* message, whatever its columns, dtypes and other rows.
Cex_C5_NegativeAlwaysQuantityError ==
    (ValidatorRan /\ "quantite" \in last.df_data.columns
                  /\ HasNegativeQuantity(last.df_data))
        => last.error = ErrQuantite

\* C5 amended: a row set with the canonical columns and the expected dtypes
\* that holds a negative quantity gets the quantity message, whatever its
\* codes (duplicated or not) and its missing values.
Thm_C5_NegativeQuantityError ==
    (ValidatorRan /\ HasCanonicalColumns(last.df_data)
                  /\ HasExpectedTypes(last.df_data)
                  /\ HasNegativeQuantity(last.df_data))
        => last.error = ErrQuantite

\* a negative quantity beside a duplicated code and a missing designation
Wit_C5_NegativeAmongOtherFaults ==
    /\ ValidatorRan
    /\ HasCanonicalColumns(last.df_data) /\ HasExpectedTypes(last.df_data)
    /\ HasNegativeQuantity(last.df_data)
    /\ SharesCode(last.df_data)
    /\ HasMissingValue(last.df_data)
    /\ last.error = ErrQuantite

\* C6 as stated: every row set in which two rows share a code gets the
\* uniqueness message.
Cex_C6_SharedCodeAlwaysUniqueError ==
    (ValidatorRan /\ "code" \in last.df_data.columns
                  /\ SharesCode(last.df_data))
        => last.error = ErrUnique

\* C6 amended: a row set with the canonical columns, the expected dtypes and
\* no negative quantity in which two rows share a code gets the uniqueness
\* message, whatever its missing values.
Thm_C6_SharedCodeUniqueError ==
    (ValidatorRan /\ HasCanonicalColumns(last.df_data)
                  /\ HasExpectedTypes(last.df_data)
                  /\ ~HasNegativeQuantity(last.df_data)
                  /\ SharesCode(last.df_data))
        => last.error = ErrUnique

\* a shared code beside a missing designation
Wit_C6_SharedCodeAndMissing ==
    /\ ValidatorRan
    /\ HasCanonicalColumns(last.df_data) /\ HasExpectedTypes(last.df_data)
    /\ ~HasNegativeQuantity(last.df_data)
    /\ SharesCode(last.df_data)
    /\ HasMissingValue(last.df_data)
    /\ last.error = ErrUnique

(***************************************************************************)
(* The reconciliation as a pure function: SpecSave draws the table         *)
(* displayed and the table returned by the editor and applies the save     *)
(* handler's two computations to them.                                     *)
(***************************************************************************)
\* rows of the displayed table
OriginalRows ==
    {MkRow("001", "Widget", 20250315, 10), MkRow("002", "Gadget", 20250331, 5)}

\* rows of the edited table: the same, rows with a field changed, a row with
\* a code the displayed table does not hold, a row without code
EditedRowChoices ==
    OriginalRows
    \cup {MkRow("001", "Widget", 20250315, 0),
          MkRow("002", "Widget", 20250331, 5),
          MkRow("003", "Gadget", 20250331, 5),
          AddedRow}

InitSave ==
    /\ collection = <<>>
    /\ db_products = EmptyFrame
    /\ filters = InitFilters
    /\ \E a \in SeqUpTo(OriginalRows, MaxRows),
          b \in SeqUpTo(EditedRowChoices, MaxRows) :
        last = [op |-> "tables",
                db_filtered |-> MkFrame(CanonCols, DB_SCHEMA, a),
                db_edited |-> MkFrame(CanonCols, DB_SCHEMA, b)]

Reconcile ==
    /\ last.op = "tables"
    /\ \E m \in ModifiedRowsOf(last.db_filtered, last.db_edited) :
        last' = [op |-> "reconcile",
                 db_filtered |-> last.db_filtered,
                 db_edited |-> last.db_edited,
                 deleted_rows |-> DeletedRowsOf(last.db_filtered, last.db_edited),
                 raised |-> m.raised,
                 modified_rows |-> m.frame]
    /\ UNCHANGED <<collection, db_products, filters>>

NextSave == Reconcile

SpecSave == InitSave /\ [][NextSave]_vars

Reconciled == last.op = "reconcile"

\* the codes present in a sequence of rows
CodesOf(rs) == {rs[i].code : i \in {j \in DOMAIN rs : ~IsNull(rs[j], "code")}}

\* how many times row r occurs in the sequence rs
Occurrences(rs, r) == Cardinality({i \in DOMAIN rs : rs[i] = r})

\* C7: deleted_rows is exactly the original rows whose code does not occur
\* in the edited table: a code is among the deleted ones iff it is in the
\* original table and absent from the edited one, and each such original
\* row is there once per occurrence.
Thm_C7_DeletedExactly ==
    Reconciled =>
        LET orig == last.db_filtered.rows
            edit == last.db_edited.rows
            del == last.deleted_rows.rows
        IN  /\ CodesOf(del) = CodesOf(orig) \ CodesOf(edit)
            /\ \A i \in DOMAIN orig :
                Occurrences(del, orig[i]) =
                    IF orig[i].code \in CodesOf(edit) THEN 0
                    ELSE Occurrences(orig, orig[i])
            /\ Range(del) \subseteq Range(orig)

\* two rows displayed, one of them removed in the editor while the other was
\* changed and moved: exactly the removed one is deleted
Wit_C7_OneRowRemoved ==
    /\ Reconciled
    /\ Len(last.db_filtered.rows) = 2
    /\ Len(last.db_edited.rows) = 2
    /\ Len(last.deleted_rows.rows) = 1
    /\ CodesOf(last.db_edited.rows) \cap CodesOf(last.db_filtered.rows) # {}
    /\ last.db_edited.rows[1].code \notin CodesOf(last.db_filtered.rows)

\* what C8 says modified_rows holds: the edited rows whose code is in both
\* tables and that differ from the original row of that code in a field
\* other than the code
ExpectedModified(orig, edit) ==
    SelectIdx(edit,
        {i \in DOMAIN edit :
            \E j \in DOMAIN orig :
                /\ orig[j].code = edit[i].code
                /\ \E k \in NonCodeCols : orig[j][k] # edit[i][k]},
        1)

\* C8 as stated, for tables in which every row has a code and no code occurs
\* twice: modified_rows is exactly the edited rows whose code is in both
\* tables with a differing non-code field; a row whose code is only in the
\* edited table is not in it.
Cex_C8_ModifiedExactly ==
    (/\ Reconciled
     /\ NoDuplicateKeys(last.db_filtered.rows)
     /\ NoDuplicateKeys(last.db_edited.rows)
     /\ \A i \in DOMAIN last.db_edited.rows : last.db_edited.rows[i].null = {})
    => /\ ~last.raised
       /\ last.modified_rows.rows =
            ExpectedModified(last.db_filtered.rows, last.db_edited.rows)

(***************************************************************************)
(* The MongoDB store.                                                      *)
(***************************************************************************)
\* C1: no two documents of the collection have the same code.
Cex_C1_UniqueCodes ==
    \A i, j \in DOMAIN collection :
        i # j => collection[i].code # collection[j].code

\* C2: every document of the collection has a quantity >= 0, after any
\* sequence of adds and saves, failed ones included.
Thm_C2_QuantitiesNonNegative ==
    \A i \in DOMAIN collection :
        ~IsNull(collection[i], "quantite") /\ collection[i].quantite >= 0

\* a save that set a stored article's quantity to a negative value was
\* refused with the quantity message
Wit_C2_NegativeSaveRefused ==
    /\ last.op = "save"
    /\ last.error = ErrQuantite
    /\ \E i \in DOMAIN last.modified_rows.rows :
        /\ last.modified_rows.rows[i].quantite < 0
        /\ last.modified_rows.rows[i].code \in CodesOf(collection)

SaveReturned == last'.op = "save"

\* C9 as stated: whenever a save returns a non-empty message, the collection
\* is what it was before the call.
Cex_C9_ErrorLeavesCollection ==
    [][(SaveReturned /\ last'.error # "") => collection' = collection]_vars

\* C9 amended: a save that returns a validation message leaves the
\* collection as it was, and so does a save whose first call raises; the
\* calls completed before a later call raises stay applied.
Thm_C9_ValidationErrorLeavesCollection ==
    [][(SaveReturned /\ last'.error # "") =>
            /\ last'.error # ErrUpdate => collection' = collection
            /\ last'.done = 0 => collection' = collection
            /\ collection' =
                ApplyCalls(collection,
                    SaveCalls(last'.modified_rows,
                        IF "code" \in last'.deleted_rows.columns
                        THEN last'.deleted_rows ELSE EmptyFrame),
                    last'.done)]_vars

\* a save refused by the validator whose batch also held a valid change of a
\* stored article: that change is not visible
Wit_C9_RefusedSaveNothingVisible ==
    /\ last.op = "save"
    /\ last.error = ErrQuantite
    /\ \E i \in DOMAIN last.modified_rows.rows :
        \E j \in DOMAIN collection :
            /\ last.modified_rows.rows[i].quantite >= 0
            /\ collection[j].code = last.modified_rows.rows[i].code
            /\ collection[j] # last.modified_rows.rows[i]

\* C10: a save never inserts: the codes stored after it are among the codes
\* stored before it, and the collection holds no more documents than before.
Thm_C10_SaveNeverInserts ==
    [][SaveReturned =>
            /\ CodesOf(collection') \subseteq CodesOf(collection)
            /\ Len(collection') <= Len(collection)]_vars

\* a save that succeeded with a modified row whose code is not stored
Wit_C10_UnknownCodeNotCreated ==
    /\ last.op = "save"
    /\ last.error = ""
    /\ collection # <<>>
    /\ \E i \in DOMAIN last.modified_rows.rows :
        /\ last.modified_rows.rows[i].code \notin CodesOf(collection)
        /\ last.modified_rows.rows[i].code
                \notin CodesOf(last.deleted_rows.rows)

\* C11: after a save returned the empty string, no document whose code is
\* in deleted_rows remains in the collection.
Cex_C11_DeletedCodesGone ==
    (last.op = "save" /\ last.error = "")
        => CodesOf(last.deleted_rows.rows) \cap CodesOf(collection) = {}

(***************************************************************************)
(* Adding articles.                                                        *)
(***************************************************************************)
AddReturned == last'.op = "add" /\ last'.text # <<>>

\* the text parses: every line has a date and an integer quantity
Parses(text) == \A i \in DOMAIN text : ~CastRaises(text[i])

\* the parsed batch passes the validator
BatchValid(text) == Parses(text) /\ is_valid_data(typecast_data(text)) = ""

CountCode(coll, c) == Cardinality({i \in DOMAIN coll : coll[i].code = c})

\* C18: a save leaves every stored document whose code is in neither
\* modified_rows nor deleted_rows as it was and where it was among them,
\* changes the code of no document (no code gains a document, only deleted
\* codes lose one, and every document whose code is not in modified_rows was
\* stored as it is before the save); and the modified_rows and deleted_rows
\* the save handler computes have no code in common.
Thm_C18_SaveFrame ==
    [][SaveReturned =>
        LET mod == CodesOf(last'.modified_rows.rows)
            del == CodesOf(last'.deleted_rows.rows)
            Untouched(d) == d.code \notin (mod \cup del)
        IN  /\ SelectSeq(collection', Untouched)
                    = SelectSeq(collection, Untouched)
            /\ \A c \in CodesOf(collection) \cup CodesOf(collection') :
                    /\ CountCode(collection', c) <= CountCode(collection, c)
                    /\ c \notin del =>
                        CountCode(collection', c) = CountCode(collection, c)
            /\ \A j \in DOMAIN collection' :
                    collection'[j].code \notin mod =>
                        \E i \in DOMAIN collection :
                            collection[i] = collection'[j]
            /\ last'.caller = "handler" => mod \cap del = {}]_vars

\* the save handler changed a stored article while another document, whose
\* code is in neither frame, is stored
Wit_C18_OtherDocumentKept ==
    /\ last.op = "save"
    /\ last.caller = "handler"
    /\ last.error = ""
    /\ \E i \in DOMAIN last.modified_rows.rows :
        last.modified_rows.rows[i] \in Range(collection)
    /\ \E j \in DOMAIN collection :
        collection[j].code \notin CodesOf(last.modified_rows.rows)
                                \cup CodesOf(last.deleted_rows.rows)

(***************************************************************************)
(* The file-backed variant (app-offline.py).  The store is the file        *)
(* db.csv, held in `collection` as the sequence of its rows; every script  *)
(* run loads it again (load_db).  The code column is named code_article;   *)
(* the rows keep the field name `code`.  The row label of a loaded row is  *)
(* its position in the file.                                               *)
(***************************************************************************)
OfflineCols == {"code_article", "designation", "dlc", "quantite"}

ErrDb == "Erreur: La base de données ne contient pas les colonnes attendues."

\* check_db: only the column set is checked
offline_check_db(columns) == IF columns # OfflineCols THEN ErrDb ELSE ""

\* load_db, one row: astype(str) turns a missing code or designation into
\* the text "nan"
offline_load_row(r) ==
    [r EXCEPT !.code = IF IsNull(r, "code") THEN "nan" ELSE @,
              !.designation = IF IsNull(r, "designation") THEN "nan" ELSE @,
              !.null = @ \ {"code", "designation"}]

offline_load_db(file) == [i \in DOMAIN file |-> offline_load_row(file[i])]

\* search_product of app-offline.py, one row: both texts contained ignoring
\* case, same month and year as the reference date, day not before its day
offline_matches(r, item_code, item_name, expiry_date) ==
    /\ RegexSearch(item_code, r.code)
    /\ RegexSearch(item_name, r.designation)
    /\ ~IsNull(r, "dlc")
    /\ Day(r.dlc) >= Day(expiry_date)
    /\ Month(r.dlc) = Month(expiry_date)
    /\ Year(r.dlc) = Year(expiry_date)

\* insert label i into the labels s sorted by the dlc of their rows
RECURSIVE offline_insert_label(_, _, _)
offline_insert_label(db, s, i) ==
    IF s = <<>> THEN <<i>>
    ELSE IF db[i].dlc < db[Head(s)].dlc THEN <<i>> \o s
    ELSE <<Head(s)>> \o offline_insert_label(db, Tail(s), i)

RECURSIVE offline_sort_labels(_, _)
offline_sort_labels(db, s) ==
    IF s = <<>> THEN <<>>
    ELSE offline_insert_label(db,
            offline_sort_labels(db, SubSeq(s, 1, Len(s) - 1)), s[Len(s)])

\* search_product of app-offline.py: the labels of the rows kept, sorted by
\* dlc (the filtered frame keeps the labels of db)
offline_search_product(db, item_code, item_name, expiry_date) ==
    offline_sort_labels(db,
        SelectIdx([i \in DOMAIN db |-> i],
            {i \in DOMAIN db :
                offline_matches(db[i], item_code, item_name, expiry_date)},
            1))

\* db.update(new_data), one row: the cells of the row of new_data with the
\* same label that are not missing overwrite those of db; a row of db whose
\* label is not in new_data is left as it is
offline_update_row(db, i, labels, rows) ==
    IF \E j \in DOMAIN labels : labels[j] = i
    THEN LET new == rows[CHOOSE j \in DOMAIN labels : labels[j] = i]
         IN  [code |-> IF IsNull(new, "code") THEN db[i].code ELSE new.code,
              designation |-> IF IsNull(new, "designation")
                              THEN db[i].designation ELSE new.designation,
              dlc |-> IF IsNull(new, "dlc") THEN db[i].dlc ELSE new.dlc,
              quantite |-> IF IsNull(new, "quantite")
                           THEN db[i].quantite ELSE new.quantite,
              null |-> db[i].null \cap new.null]
    ELSE db[i]

\* update_db of app-offline.py: new_data is the edited table, its rows with
\* their labels; returns the rows written to the file and the message
offline_update_db(db, columns, labels, rows) ==
    IF offline_check_db(columns) # ""
    THEN [db |-> db, written |-> FALSE, error |-> offline_check_db(columns)]
    ELSE [db |-> [i \in DOMAIN db |-> offline_update_row(db, i, labels, rows)],
          written |-> TRUE, error |-> ""]

\* pd.to_datetime(new_data["dlc"]) raises on this line
offline_cast_raises(line) == ParseDate(line.dlc) = -1

ErrOfflineMalformed ==
    "Les données saisies ne sont pas valides. Veuillez vérifier les points suivants: ... (hors ligne)"

\* add_articles of app-offline.py: returns the components of the tuple it
\* returns (their number, the rows to write, the rows added, the message).
\* The quantity is kept as typed and read as an integer by the next load.
offline_add_articles(db, text) ==
    IF text = <<>>
    THEN [components |-> 2, db |-> db, written |-> FALSE, rows |-> <<>>,
          error |-> ErrEmpty]
    ELSE IF \E i \in DOMAIN text : offline_cast_raises(text[i])
    THEN [components |-> 3, db |-> db, written |-> FALSE, rows |-> <<>>,
          error |-> ErrOfflineMalformed]
    ELSE [components |-> 3,
          db |-> db \o [i \in DOMAIN text |-> CastLine(text[i])],
          written |-> TRUE,
          rows |-> [i \in DOMAIN text |-> CastLine(text[i])],
          error |-> ""]

\* the rows written by to_csv, as the file holds them: the text "nan" is
\* read back as a missing value
offline_to_csv(db, file) ==
    [i \in DOMAIN db |->
        IF i \in DOMAIN file
        THEN [db[i] EXCEPT
                !.code = IF IsNull(file[i], "code") THEN "" ELSE @,
                !.designation = IF IsNull(file[i], "designation") THEN "" ELSE @,
                !.null = @ \cup (file[i].null \cap {"code", "designation"})]
        ELSE db[i]]

\* the lines a user pastes in the file-backed variant: a well-formed article,
\* a line repeating its code with a negative quantity, a line without code,
\* a line whose date is no date
OfflineAddLines ==
    {MkLine("001", "Widget", "2025-03-15", "10"),
     MkLine("001", "Gadget", "2025-03-31", "-1"),
     MkLine("", "Gadget", "2025-03-31", "5"),
     MkLine("002", "Gadget", "15 mars", "5")}

OfflineAddTexts == SeqUpTo(OfflineAddLines, MaxLines)

\* what a user does to one displayed row: leave it, delete it, set its
\* quantity to zero
OfflineGridChoices == {"keep", "delete", "zero"}

InitOffline ==
    /\ collection = <<>>
    /\ db_products = EmptyFrame
    /\ filters = InitFilters
    /\ last = [op |-> "idle"]

\* the next interaction reruns the script from the top
OfflineRerun ==
    /\ ~Idle
    /\ last' = [op |-> "idle"]
    /\ UNCHANGED <<collection, db_products, filters>>

\* a filter changed
OfflineSearch ==
    /\ Idle
    /\ \E f \in SearchFilters :
        /\ f # filters
        /\ filters' = f
        /\ last' = [op |-> "offline_search",
                    labels |-> offline_search_product(
                                  offline_load_db(collection),
                                  f.code, f.name, f.dlc)]
        /\ UNCHANGED <<collection, db_products>>

\* "Enregistrer les articles" pressed: the handler unpacks three components
\* from the result of add_articles; a result of another length makes the
\* unpacking raise and the run ends with an exception instead of a message
OfflineAdd ==
    /\ Idle
    /\ \E text \in OfflineAddTexts :
       \E r \in {offline_add_articles(offline_load_db(collection), text)} :
           /\ Len(collection) + Len(text) <= MaxDocs
           /\ collection' = IF r.components = 3 /\ r.written
                            THEN offline_to_csv(r.db, collection)
                            ELSE collection
           /\ last' = [op |-> "offline_add", text |-> text,
                       components |-> r.components,
                       raised |-> r.components # 3,
                       shown |-> IF r.components = 3 THEN r.error ELSE "",
                       rows |-> IF r.components = 3 THEN r.rows ELSE <<>>]
           /\ UNCHANGED <<db_products, filters>>

\* "Sauvegarder les modifications" pressed: the edited table is the search
\* result with rows removed and quantities changed
OfflineSave ==
    /\ Idle
    /\ \E db \in {offline_load_db(collection)} :
       \E shown \in {offline_search_product(db, filters.code, filters.name,
                                            filters.dlc)} :
       \E choices \in [DOMAIN shown -> OfflineGridChoices] :
       \E kept \in {SelectIdx(shown,
                        {j \in DOMAIN shown : choices[j] # "delete"}, 1)} :
       \E rows \in {[j \in DOMAIN kept |->
                        IF \E k \in DOMAIN shown :
                              shown[k] = kept[j] /\ choices[k] = "zero"
                        THEN SetField(db[kept[j]], "quantite", 0)
                        ELSE db[kept[j]]]} :
       \E r \in {offline_update_db(db, OfflineCols, kept, rows)} :
           /\ collection' = IF r.written
                            THEN offline_to_csv(r.db, collection)
                            ELSE collection
           /\ last' = [op |-> "offline_save",
                       shown |-> [j \in DOMAIN shown |-> db[shown[j]]],
                       edited |-> rows,
                       error |-> r.error]
           /\ UNCHANGED <<db_products, filters>>

NextOffline == OfflineRerun \/ OfflineSearch \/ OfflineAdd \/ OfflineSave

SpecOffline == InitOffline /\ [][NextOffline]_vars

\* C13: an empty text yields the dedicated message with no rows, leaves the
\* store unchanged, and the result has as many components as the handler
\* unpacks, so that the run ends by displaying the message.
Cex_C13_EmptyTextShowsMessage ==
    (last.op = "offline_add" /\ last.text = <<>>)
        => /\ ~last.raised
           /\ last.shown = ErrEmpty
           /\ last.rows = <<>>

\* C16: after a save of the file-backed variant that returned without error,
\* the store holds no row with the code of a row that was displayed and
\* removed from the edited table.
Cex_C16_OfflineRemovedRowGone ==
    (last.op = "offline_save" /\ last.error = "") =>
        (CodesOf(last.shown) \ CodesOf(last.edited)) \cap CodesOf(collection)
            = {}

\* C17: after any sequence of add_articles calls of the file-backed variant
\* the store has unique codes, quantities >= 0 and no missing value.
Cex_C17_OfflineStoreValid ==
    /\ \A i, j \in DOMAIN collection :
           collection[i].code = collection[j].code => i = j
    /\ \A i \in DOMAIN collection :
           /\ collection[i].null = {}
           /\ collection[i].quantite >= 0

(***************************************************************************)
(* The expiry filter of the MongoDB search as a pure function: SpecDate    *)
(* draws a reference date and the expiry date of a stored article and      *)
(* applies get_month_end and the filter of the query to them.              *)
(***************************************************************************)
\* reference dates: every day of a leap year and of the year after it
ReferenceDates ==
    {dt \in {MkDate(y, m, d) : y \in {2024, 2025}, m \in 1..12, d \in 1..31} :
        Day(dt) <= DaysInMonth(Year(dt), Month(dt))}

\* expiry dates of the stored article: inside a month, at its end, in the
\* following month, in the following year
ExpiryDates ==
    {20240229, 20240301, 20240331, 20250315, 20250331, 20250401, 20250430,
     20250501, 20251231, 20260101, 20260131}

InitDate ==
    /\ collection = <<>>
    /\ db_products = EmptyFrame
    /\ filters = InitFilters
    /\ \E reference \in ReferenceDates, dlc \in ExpiryDates :
        last = [op |-> "dates", reference |-> reference, dlc |-> dlc]

\* the query of search_product for one stored article, empty text criteria
CallExpiryFilter ==
    /\ last.op = "dates"
    /\ last' = [op |-> "expiry_filter",
                reference |-> last.reference,
                dlc |-> last.dlc,
                month_end |-> get_month_end(last.reference),
                kept |-> MatchesFilter(
                            MkRow("001", "Widget", last.dlc, 5),
                            "", "", last.reference)]
    /\ UNCHANGED <<collection, db_products, filters>>

NextDate == CallExpiryFilter

SpecDate == InitDate /\ [][NextDate]_vars

\* the last day of the month that contains d
LastDayOfMonth(d) == MkDate(Year(d), Month(d), DaysInMonth(Year(d), Month(d)))

\* C14: get_month_end(d) is the last day of the month that contains d, and
\* the expiry filter keeps exactly the rows whose expiry lies between the
\* reference date and the last day of its month, both included.
Cex_C14_ExpiryWithinReferenceMonth ==
    last.op = "expiry_filter" =>
        /\ last.month_end = LastDayOfMonth(last.reference)
        /\ last.kept <=> (/\ last.reference <= last.dlc
                          /\ last.dlc <= LastDayOfMonth(last.reference))

(***************************************************************************)
(* The text criteria of the search as a pure function: SpecRegex draws a   *)
(* code criterion, a designation criterion and a stored article and        *)
(* applies the query to them.                                              *)
(***************************************************************************)
\* criteria typed in the filter inputs: empty, plain texts in either case,
\* texts holding ".", "(" or "*"
Criteria == {"", "00", "001", "gadget", "Widget", "0.1", "(", "*"}

\* the stored articles
StoredCodes == {"001", "002", "0.1"}
StoredNames == {"Widget", "Gadget"}

InitRegex ==
    /\ collection = <<>>
    /\ db_products = EmptyFrame
    /\ filters = InitFilters
    /\ \E item_code \in Criteria, item_name \in Criteria,
          c \in StoredCodes, d \in StoredNames :
        last = [op |-> "criteria", item_code |-> item_code,
                item_name |-> item_name, code |-> c, designation |-> d]

\* search_product for one stored article expiring on the reference date:
\* find raises when a criterion is no regular expression
CallSearchText ==
    /\ last.op = "criteria"
    /\ last' = [op |-> "search_text",
                item_code |-> last.item_code, item_name |-> last.item_name,
                code |-> last.code, designation |-> last.designation,
                raised |-> ~(RegexCompiles(last.item_code)
                             /\ RegexCompiles(last.item_name)),
                kept |-> /\ RegexCompiles(last.item_code)
                         /\ RegexCompiles(last.item_name)
                         /\ MatchesFilter(
                              MkRow(last.code, last.designation, 20250315, 5),
                              last.item_code, last.item_name, 20250315)]
    /\ UNCHANGED <<collection, db_products, filters>>

NextRegex == CallSearchText

SpecRegex == InitRegex /\ [][NextRegex]_vars

\* the criterion occurs in the field as a literal substring, ignoring case
OccursIn(criterion, field) ==
    \E o \in 0..(Len(Chars(field)) - Len(Chars(criterion))) :
        \A i \in 1..Len(Chars(criterion)) :
            Fold(Chars(field)[o + i]) = Fold(Chars(criterion)[i])

\* C15: for every code and designation criterion the search does not fail
\* and keeps the row iff each criterion occurs in its field as a literal
\* substring ignoring case (the empty criterion occurs in every field).
Cex_C15_LiteralSubstring ==
    last.op = "search_text" =>
        /\ ~last.raised
        /\ last.kept <=> (/\ OccursIn(last.item_code, last.code)
                          /\ OccursIn(last.item_name, last.designation))

====
